---- MODULE Spec2Model ----
(***************************************************************************)
(* The database actor of spike-sqlx (src/src/main.rs): a ghost_actor that  *)
(* owns one rusqlite/sqlcipher connection and serves insert and query      *)
(* requests, each inside its own transaction.                              *)
(***************************************************************************)
EXTENDS Integers, Sequences, FiniteSets, TLC

(***************************************************************************)
(* Values.                                                                 *)
(*                                                                         *)
(* A u32 is kept as two 16-bit limbs <<high, low>>, because 2^32 - 1 is    *)
(* not an integer TLC can hold; the code only compares dht_loc values.     *)
(***************************************************************************)
U32(hi, lo) == <<hi, lo>>

U32Min == U32(0, 0)

U32Max == U32(65535, 65535)

U32Le(a, b) == a[1] < b[1] \/ (a[1] = b[1] /\ a[2] <= b[2])

(* chrono's DateTime<Utc>, by its calendar fields. *)
DT(y, mo, d, h, mi, s, n) ==
    [year |-> y, month |-> mo, day |-> d, hour |-> h, minute |-> mi,
     second |-> s, nano |-> n]

DtKey(t) == <<t.year, t.month, t.day, t.hour, t.minute, t.second, t.nano>>

(* a <= b for two sequences of integers: the first element that differs   *)
(* decides, and a prefix comes first.  This is memcmp followed by the      *)
(* comparison of the lengths.                                              *)
LexLe(a, b) ==
    \/ \E i \in 1..Len(a) :
           /\ i <= Len(b)
           /\ a[i] < b[i]
           /\ \A j \in 1..(i - 1) : a[j] = b[j]
    \/ /\ Len(a) <= Len(b)
       /\ \A j \in 1..Len(a) : a[j] = b[j]

(* The order of DateTime<Utc> values in the program: chronological. *)
DtLe(a, b) == LexLe(DtKey(a), DtKey(b))

(***************************************************************************)
(* The TEXT form of a timestamp.  created_at is bound to the statements    *)
(* with params! and lands in a TEXT column, so DateTime<Utc>::to_sql       *)
(* renders it as RFC 3339 text; row.get reads it back with from_sql.       *)
(* A text is a sequence of character codes.                                *)
(***************************************************************************)
Digit(n) == 48 + n

(* n in decimal, zero padded to w digits *)
Pad(n, w) == [i \in 1..w |-> Digit((n \div 10^(w - i)) % 10)]

(* the number of decimal digits of n, a number of at most nine digits *)
NDigits(n) == CHOOSE k \in 1..9 : n < 10^k /\ (k = 1 \/ n >= 10^(k - 1))

(* Years 0..9999 take four digits; any other year takes an explicit sign   *)
(* and at least four digits.                                               *)
YearText(y) ==
    IF y >= 0 /\ y <= 9999 THEN Pad(y, 4)
    ELSE LET a == IF y < 0 THEN 0 - y ELSE y
             w == IF NDigits(a) < 4 THEN 4 ELSE NDigits(a)
         IN  <<IF y < 0 THEN 45 ELSE 43>> \o Pad(a, w)

(* The fraction of a second: nothing, or 3, 6 or 9 digits after a dot. *)
FracText(n) ==
    IF n = 0 THEN <<>>
    ELSE IF n % 1000000 = 0 THEN <<46>> \o Pad(n \div 1000000, 3)
    ELSE IF n % 1000 = 0 THEN <<46>> \o Pad(n \div 1000, 6)
    ELSE <<46>> \o Pad(n, 9)

OffsetText == <<43, 48, 48, 58, 48, 48>>

to_sql(t) ==
    YearText(t.year) \o <<45>> \o Pad(t.month, 2) \o <<45>> \o Pad(t.day, 2)
    \o <<84>> \o Pad(t.hour, 2) \o <<58>> \o Pad(t.minute, 2)
    \o <<58>> \o Pad(t.second, 2) \o FracText(t.nano) \o OffsetText

(* what the i-th of the digit characters s adds to the number they spell *)
Place(s, i) == IF i <= Len(s) THEN (s[i] - 48) * 10^(Len(s) - i) ELSE 0

(* the number that at most nine digit characters spell *)
Num(s) ==
    Place(s, 1) + Place(s, 2) + Place(s, 3) + Place(s, 4) + Place(s, 5)
    + Place(s, 6) + Place(s, 7) + Place(s, 8) + Place(s, 9)

from_sql(s) ==
    LET signed == s[1] = 43 \/ s[1] = 45
        body   == IF signed THEN Tail(s) ELSE s
        ylen   == CHOOSE i \in 1..Len(body) :
                      /\ body[i + 1] = 45
                      /\ \A j \in 1..i : body[j] # 45
        y      == Num(SubSeq(body, 1, ylen))
        r      == SubSeq(body, ylen + 1, Len(body))
        frac   == SubSeq(r, 17, Len(r) - 6)
    IN  DT(IF signed /\ s[1] = 45 THEN 0 - y ELSE y,
           Num(SubSeq(r, 2, 3)), Num(SubSeq(r, 5, 6)), Num(SubSeq(r, 8, 9)),
           Num(SubSeq(r, 11, 12)), Num(SubSeq(r, 14, 15)),
           IF frac = <<>> THEN 0 ELSE Num(frac) * 10^(9 - Len(frac)))

(***************************************************************************)
(* The encryption key.  Key::to_sql writes every byte of the key with      *)
(* "{:02X}" to a fresh String, which is bound to `PRAGMA key` as TEXT.     *)
(***************************************************************************)
(* one hexadecimal digit, upper case *)
HexChar(n) == IF n < 10 THEN 48 + n ELSE 55 + n

(* A faulty variant: "{:X}", no padding to two digits. *)
HexX(b) == IF b < 16 THEN <<HexChar(b)>> ELSE <<HexChar(b \div 16), HexChar(b % 16)>>

(* "{:02X}" of a u8 *)
Hex02X(b) == <<HexChar(b \div 16), HexChar(b % 16)>>

RECURSIVE KeyLoop(_, _)
(* the loop `for b in &self.0`: s after the bytes bs have been written *)
KeyLoop(s, bs) ==
    IF bs = <<>> THEN s ELSE KeyLoop(s \o Hex02X(Head(bs)), Tail(bs))

KeyToSql(k) == KeyLoop(<<>>, k)

KeyLen == 32

(* Key(vec![0; 32]) *)
get_encryption_key_shim == [i \in 1..KeyLen |-> 0]

(***************************************************************************)
(* The values the model draws its inputs from.                             *)
(***************************************************************************)
(* 32-byte secrets: byte i is b + i * k modulo 256 *)
Secrets ==
    {[i \in 1..KeyLen |-> (b + i * k) % 256] :
        b \in {0, 9, 10, 15, 16, 171, 255}, k \in {0, 1, 17}}

(* Entry::rand fills four random bytes. *)
Hashes == {<<0, 0, 0, 1>>, <<0, 0, 0, 2>>}

Locs == {U32Min, U32Max}

(* main's `start`: 1970-01-01 00:01:01 *)
QueryStart == DT(1970, 1, 1, 0, 1, 1, 0)

(* What Utc::now() returns, one reading after the other. *)
ClockTimes ==
    <<DT(2020, 9, 1, 12, 0, 0, 500000000), DT(2020, 9, 1, 12, 0, 0, 500000001)>>

(* A bound later than every reading of the clock. *)
FarFuture == DT(10000, 1, 1, 0, 0, 0, 0)

Range(ls, le, ts, te) ==
    [dht_loc_start |-> ls, dht_loc_end |-> le, created_at_start |-> ts,
     created_at_end |-> te]

(* The ranges handle_query is called with when the clock reads t: main's   *)
(* 0 .. u32::MAX from `start` to now, the other bounds of dht_loc with     *)
(* main's times, and other times with main's bounds of dht_loc.            *)
QueryRanges(t) ==
    {Range(ls, le, QueryStart, t) : ls \in Locs, le \in Locs}
    \cup {Range(U32Min, U32Max, p[1], p[2]) :
             p \in {<<t, t>>, <<QueryStart, QueryStart>>, <<QueryStart, FarFuture>>,
                    <<FarFuture, t>>}}

Callers == {"a", "b"}

(* requests issued in one run *)
MaxReq == 3

(* runs of spawn_database on the same path *)
MaxOpens == 2

(***************************************************************************)
(* State.                                                                  *)
(***************************************************************************)
VARIABLES
    file,      \* the database file at `path`: [exists, wal, schema, rows]
    con,       \* the rusqlite Connection: [open, keyed]
    spawnPc,   \* where spawn_database stands
    sender,    \* TRUE when spawn_database has returned Ok(sender)
    epoch,     \* the number of the current run of spawn_database
    queue,     \* the actor's inbound channel
    wpc,       \* the worker: "idle", "exec", "finish"
    cur,       \* the request the running handler was called with
    txOpen,    \* ids of the requests whose Transaction is open on con
    view,      \* the rows as the open transaction sees them
    out,       \* handle_query's `out`
    resp,      \* the response of each request, sent and not yet received
    pc,        \* each caller: "idle" or "waiting"
    wait,      \* the request each waiting caller awaits
    now,       \* the reading of the clock, an index of ClockTimes
    nextId,    \* the id of the next request the channel accepts
    hist,      \* history of each accepted request
    acked,     \* entries whose insert some caller has seen succeed
    spawnErr,  \* the error spawn_database returned: "none", "ghost", "rusqlite"
    bootFault, \* TRUE when the channel or the engine failed in this run
    key,       \* the bytes of the Key
    keyText    \* the text last bound to `PRAGMA key`

vars == <<file, con, spawnPc, sender, epoch, queue, wpc, cur, txOpen, view, out,
          resp, pc, wait, now, nextId, hist, acked, spawnErr, bootFault, key,
          keyText>>

Ids == 1..MaxReq

None == [ok |-> FALSE, err |-> "none", val |-> <<>>]

Ok(v) == [ok |-> TRUE, err |-> "", val |-> v]

Err(kind) == [ok |-> FALSE, err |-> kind, val |-> <<>>]

NoReq == [id |-> 0, op |-> "none", arg |-> <<>>]

NoHist == [actor |-> 0, req |-> NoReq, state |-> "none", fault |-> FALSE,
           txEnd |-> "none", sent |-> 0, seen |-> {}]

(* struct Entry, and the row of `entries` the INSERT builds from it *)
Entry(h, l, t) == [hash |-> h, dht_loc |-> l, created_at |-> t]

Row(e) == [hash |-> e.hash, dht_loc |-> e.dht_loc, created_at |-> to_sql(e.created_at)]

(* the closure of query_map: a row back to an Entry *)
RowEntry(r) == Entry(r.hash, r.dht_loc, from_sql(r.created_at))

(* the state before spawn_database runs, whatever the key *)
Start ==
    /\ file = [exists |-> FALSE, wal |-> FALSE, schema |-> {}, rows |-> {}]
    /\ con = [open |-> FALSE, keyed |-> FALSE]
    /\ spawnPc = "init"
    /\ sender = FALSE
    /\ epoch = 1
    /\ queue = <<>>
    /\ wpc = "idle"
    /\ cur = NoReq
    /\ txOpen = {}
    /\ view = {}
    /\ out = <<>>
    /\ resp = [i \in Ids |-> None]
    /\ pc = [c \in Callers |-> "idle"]
    /\ wait = [c \in Callers |-> 0]
    /\ now = 1
    /\ nextId = 1
    /\ hist = [i \in Ids |-> NoHist]
    /\ acked = {}
    /\ spawnErr = "none"
    /\ bootFault = FALSE
    /\ keyText = <<>>

Init == key = get_encryption_key_shim /\ Start

(***************************************************************************)
(* spawn_database and Db::new.                                             *)
(***************************************************************************)
actorVars ==
    <<queue, wpc, cur, txOpen, view, out, resp, pc, wait, now, nextId, hist, acked, key>>

(* A faulty variant: the sender is handed out although the bootstrap failed. *)
BootFailedSenderReturned ==
    /\ spawnPc' = "failed"
    /\ con' = [open |-> FALSE, keyed |-> FALSE]
    /\ sender' = TRUE

(* A `?` of spawn_database or Db::new returns the error: the connection    *)
(* and the channel's sender are dropped, nothing is spawned.               *)
BootFailed ==
    /\ spawnPc' = "failed"
    /\ con' = [open |-> FALSE, keyed |-> FALSE]
    /\ sender' = FALSE

(* The error the `?` returns is the boxed error of the failed call:        *)
(* Error::from(GhostError) or Error::from(rusqlite::Error).                *)
BootError(kind, faulted) ==
    /\ BootFailed
    /\ spawnErr' = kind
    /\ bootFault' = faulted

CreateChannel ==
    /\ spawnPc = "init"
    /\ \/ spawnPc' = "open" /\ UNCHANGED <<con, sender, spawnErr, bootFault>>
       \/ BootError("ghost", TRUE)
    /\ UNCHANGED <<file, epoch, keyText>>
    /\ UNCHANGED actorVars

ConnectionOpen ==
    /\ spawnPc = "open"
    /\ \/ /\ spawnPc' = "key"
          /\ con' = [open |-> TRUE, keyed |-> FALSE]
          /\ file' = [file EXCEPT !.exists = TRUE]
          /\ UNCHANGED <<sender, spawnErr, bootFault>>
       \/ BootError("rusqlite", TRUE) /\ UNCHANGED file
    /\ UNCHANGED <<epoch, keyText>>
    /\ UNCHANGED actorVars

(* A faulty variant: the key is not applied to the connection. *)
PragmaKeySkipped ==
    /\ spawnPc = "key"
    /\ \/ /\ spawnPc' = "journal"
          /\ UNCHANGED <<con, keyText, sender, spawnErr, bootFault>>
       \/ BootError("rusqlite", TRUE) /\ UNCHANGED keyText
    /\ UNCHANGED <<file, epoch>>
    /\ UNCHANGED actorVars

(* con.pragma_update(None, "key", &get_encryption_key_shim()): the key is  *)
(* rendered by Key::to_sql and applied to the connection.                  *)
PragmaKey ==
    /\ spawnPc = "key"
    /\ \/ /\ spawnPc' = "journal"
          /\ keyText' = KeyToSql(key)
          /\ con' = [con EXCEPT !.keyed = TRUE]
          /\ UNCHANGED <<sender, spawnErr, bootFault>>
       \/ BootError("rusqlite", TRUE) /\ UNCHANGED keyText
    /\ UNCHANGED <<file, epoch>>
    /\ UNCHANGED actorVars

PragmaJournalMode ==
    /\ spawnPc = "journal"
    /\ \/ /\ spawnPc' = "table"
          /\ file' = [file EXCEPT !.wal = TRUE]
          /\ UNCHANGED <<con, sender, spawnErr, bootFault>>
       \/ BootError("rusqlite", TRUE) /\ UNCHANGED file
    /\ UNCHANGED <<epoch, keyText>>
    /\ UNCHANGED actorVars

(* A faulty variant: CREATE without IF NOT EXISTS, refused when the name exists. *)
CreatePlain(schema, name) ==
    [ok |-> name \notin schema, schema |-> schema \cup {name}]

(* CREATE TABLE / INDEX IF NOT EXISTS name: the statement succeeds, and    *)
(* the schema has the name afterwards, once.                               *)
CreateIfNotExists(schema, name) == [ok |-> TRUE, schema |-> schema \cup {name}]

(* A faulty variant: the table is created anew, empty, on every open. *)
CreateTableAnew ==
    /\ spawnPc = "table"
    /\ \/ /\ spawnPc' = "index"
          /\ file' = [file EXCEPT !.schema = @ \cup {"entries"}, !.rows = {}]
          /\ UNCHANGED <<con, sender, spawnErr, bootFault>>
       \/ BootError("rusqlite", TRUE) /\ UNCHANGED file
    /\ UNCHANGED <<epoch, keyText>>
    /\ UNCHANGED actorVars

(* A statement the engine refuses and a statement that fails both return   *)
(* through `?`.                                                            *)
CreateTable ==
    /\ spawnPc = "table"
    /\ LET st == CreateIfNotExists(file.schema, "entries") IN
       \/ /\ st.ok
          /\ spawnPc' = "index"
          /\ file' = [file EXCEPT !.schema = st.schema]
          /\ UNCHANGED <<con, sender, spawnErr, bootFault>>
       \/ /\ ~st.ok
          /\ BootError("rusqlite", FALSE)
          /\ UNCHANGED file
       \/ BootError("rusqlite", TRUE) /\ UNCHANGED file
    /\ UNCHANGED <<epoch, keyText>>
    /\ UNCHANGED actorVars

(* The last statement of Db::new; on success spawn_database spawns the     *)
(* actor task and returns the sender.                                      *)
CreateIndex ==
    /\ spawnPc = "index"
    /\ LET st == CreateIfNotExists(file.schema, "entries_query_idx") IN
       \/ /\ st.ok
          /\ spawnPc' = "running"
          /\ file' = [file EXCEPT !.schema = st.schema]
          /\ sender' = TRUE
          /\ UNCHANGED <<con, spawnErr, bootFault>>
       \/ /\ ~st.ok
          /\ BootError("rusqlite", FALSE)
          /\ UNCHANGED file
       \/ BootError("rusqlite", TRUE) /\ UNCHANGED file
    /\ UNCHANGED <<epoch, keyText>>
    /\ UNCHANGED actorVars

(* spawn_database is called again on the same path. *)
Respawn ==
    /\ spawnPc \in {"failed", "stopped"}
    /\ epoch < MaxOpens
    /\ spawnPc' = "init"
    /\ epoch' = epoch + 1
    /\ spawnErr' = "none"
    /\ bootFault' = FALSE
    /\ UNCHANGED <<file, con, sender, keyText>>
    /\ UNCHANGED actorVars

(***************************************************************************)
(* The store engine, as the statements of the handlers use it.             *)
(***************************************************************************)
(* A faulty variant: the table has no primary key. *)
NoPrimaryKey(rows, h) == TRUE

(* hash BLOB PRIMARY KEY: the INSERT is refused when a row has the hash.   *)
PrimaryKeyFree(rows, h) == \A r \in rows : r.hash # h

(* A faulty variant: dht_loc < ?2 instead of dht_loc <= ?2. *)
WhereEndExclusive(r, q) ==
    /\ U32Le(q.dht_loc_start, r.dht_loc)
    /\ U32Le(r.dht_loc, q.dht_loc_end) /\ r.dht_loc # q.dht_loc_end
    /\ LexLe(to_sql(q.created_at_start), r.created_at)
    /\ LexLe(r.created_at, to_sql(q.created_at_end))

(* A faulty variant: a range that wraps selects what lies on either side. *)
WhereWrapping(r, q) ==
    /\ IF U32Le(q.dht_loc_start, q.dht_loc_end)
       THEN U32Le(q.dht_loc_start, r.dht_loc) /\ U32Le(r.dht_loc, q.dht_loc_end)
       ELSE U32Le(q.dht_loc_start, r.dht_loc) \/ U32Le(r.dht_loc, q.dht_loc_end)
    /\ LexLe(to_sql(q.created_at_start), r.created_at)
    /\ LexLe(r.created_at, to_sql(q.created_at_end))

(* WHERE dht_loc >= ?1 AND dht_loc <= ?2 AND created_at >= ?3 AND          *)
(* created_at <= ?4: dht_loc is an INT column, created_at a TEXT column.   *)
Where(r, q) ==
    /\ U32Le(q.dht_loc_start, r.dht_loc)
    /\ U32Le(r.dht_loc, q.dht_loc_end)
    /\ LexLe(to_sql(q.created_at_start), r.created_at)
    /\ LexLe(r.created_at, to_sql(q.created_at_end))

(* The order of entries_query_idx (dht_loc, created_at); rows with the     *)
(* same key follow each other in the order of their hashes.               *)
IndexBefore(r1, r2) ==
    \/ r1.dht_loc # r2.dht_loc /\ U32Le(r1.dht_loc, r2.dht_loc)
    \/ /\ r1.dht_loc = r2.dht_loc
       /\ r1.created_at # r2.created_at
       /\ LexLe(r1.created_at, r2.created_at)
    \/ /\ r1.dht_loc = r2.dht_loc
       /\ r1.created_at = r2.created_at
       /\ r1.hash # r2.hash
       /\ LexLe(r1.hash, r2.hash)

(* the rows of a set, one after the other, in index order *)
Scan(rows) ==
    [i \in 1..Cardinality(rows) |->
        CHOOSE r \in rows : Cardinality({x \in rows : IndexBefore(x, r)}) = i - 1]

(* the loop over query_map: every selected row is mapped and pushed *)
Collect(rs, q) ==
    LET Selected(r) == Where(r, q)
        sel == SelectSeq(rs, Selected)
    IN  [i \in 1..Len(sel) |-> RowEntry(sel[i])]

Select(rows, q) == Collect(Scan(rows), q)

(***************************************************************************)
(* The worker: the actor task runs one handler of DbApiHandler at a time.  *)
(***************************************************************************)
bootVars == <<con, spawnPc, sender, epoch, spawnErr, bootFault, key, keyText>>

(* A faulty variant: a request is dispatched while a handler still runs. *)
WorkerAlwaysFree == TRUE

(* The handlers take &mut self: the next request is dispatched only when   *)
(* the previous handler has returned.                                      *)
WorkerFree == wpc = "idle"

(* respond: the outcome goes to the caller that still awaits the request;  *)
(* nobody receives it when the caller has given up.                        *)
Responded(rs, id, outcome) ==
    IF \E c \in Callers : pc[c] = "waiting" /\ wait[c] = id
    THEN [rs EXCEPT ![id] = outcome]
    ELSE rs

(* A faulty variant: a handler that fails leaves its transaction open. *)
ReturnKeepsTx(id, outcome, end, faulted) ==
    /\ resp' = Responded(resp, id, outcome)
    /\ hist' = [hist EXCEPT ![id].state = "done", ![id].txEnd = end,
                            ![id].sent = @ + 1, ![id].fault = faulted]
    /\ wpc' = "idle"
    /\ txOpen' = IF outcome.ok THEN txOpen \ {id} ELSE txOpen
    /\ view' = {}
    /\ out' = <<>>
    /\ cur' = NoReq

(* The handler returns: its outcome is sent, the worker is free again. *)
Return(id, outcome, end, faulted) ==
    /\ resp' = Responded(resp, id, outcome)
    /\ hist' = [hist EXCEPT ![id].state = "done", ![id].txEnd = end,
                            ![id].sent = @ + 1, ![id].fault = faulted]
    /\ wpc' = "idle"
    /\ txOpen' = txOpen \ {id}
    /\ view' = {}
    /\ out' = <<>>
    /\ cur' = NoReq

(* A faulty variant: the request accepted last is handled first. *)
DequeueLast(q) == <<q[Len(q)], SubSeq(q, 1, Len(q) - 1)>>

(* The channel hands the requests over in the order it accepted them:     *)
(* the request to handle next, and the requests that stay queued.          *)
Dequeue(q) == <<Head(q), Tail(q)>>

(* The actor takes the next request and calls its handler, which starts    *)
(* with con.transaction().                                                 *)
HandleBegin ==
    /\ spawnPc = "running"
    /\ WorkerFree
    /\ queue # <<>>
    /\ LET r == Dequeue(queue)[1] IN
       /\ queue' = Dequeue(queue)[2]
       /\ \/ /\ cur' = r
             /\ txOpen' = txOpen \cup {r.id}
             /\ view' = file.rows
             /\ wpc' = "exec"
             /\ hist' = [hist EXCEPT ![r.id].state = "begun"]
             /\ UNCHANGED <<resp, out>>
          \/ Return(r.id, Err("rusqlite"), "none", TRUE)
    /\ UNCHANGED <<file, pc, wait, now, nextId, acked>>
    /\ UNCHANGED bootVars

(* A faulty variant: INSERT OR REPLACE, a row with the hash gives way to the new one. *)
InsertOrReplace ==
    /\ wpc = "exec"
    /\ cur.op = "insert"
    /\ \/ /\ view' = {r \in view : r.hash # cur.arg.hash} \cup {Row(cur.arg)}
          /\ wpc' = "finish"
          /\ UNCHANGED <<resp, hist, txOpen, cur, out>>
       \/ Return(cur.id, Err("rusqlite"), "rollback", TRUE)
    /\ UNCHANGED <<file, queue, pc, wait, now, nextId, acked>>
    /\ UNCHANGED bootVars

(* handle_insert: prepare_cached and execute of the INSERT.  A refused or  *)
(* failed statement returns through `?`, which drops and so rolls back tx. *)
InsertExecute ==
    /\ wpc = "exec"
    /\ cur.op = "insert"
    /\ \/ /\ PrimaryKeyFree(view, cur.arg.hash)
          /\ view' = view \cup {Row(cur.arg)}
          /\ wpc' = "finish"
          /\ UNCHANGED <<resp, hist, txOpen, cur, out>>
       \/ /\ ~PrimaryKeyFree(view, cur.arg.hash)
          /\ Return(cur.id, Err("rusqlite"), "rollback", FALSE)
       \/ Return(cur.id, Err("rusqlite"), "rollback", TRUE)
    /\ UNCHANGED <<file, queue, pc, wait, now, nextId, acked>>
    /\ UNCHANGED bootVars

(* handle_insert: tx.commit() and the response. *)
InsertCommit ==
    /\ wpc = "finish"
    /\ cur.op = "insert"
    /\ \/ /\ file' = [file EXCEPT !.rows = view]
          /\ Return(cur.id, Ok(<<>>), "commit", FALSE)
       \/ /\ UNCHANGED file
          /\ Return(cur.id, Err("rusqlite"), "rollback", TRUE)
    /\ UNCHANGED <<queue, pc, wait, now, nextId, acked>>
    /\ UNCHANGED bootVars

(* handle_query: the SELECT and the loop that fills `out`. *)
QuerySelect ==
    /\ wpc = "exec"
    /\ cur.op = "query"
    /\ \/ /\ out' = Select(view, cur.arg)
          /\ wpc' = "finish"
          /\ UNCHANGED <<resp, hist, txOpen, view, cur>>
       \/ Return(cur.id, Err("rusqlite"), "rollback", TRUE)
    /\ UNCHANGED <<file, queue, pc, wait, now, nextId, acked>>
    /\ UNCHANGED bootVars

(* A faulty variant: tx.commit() at the end of handle_query. *)
QueryCommit ==
    /\ wpc = "finish"
    /\ cur.op = "query"
    /\ \/ /\ file' = [file EXCEPT !.rows = view]
          /\ Return(cur.id, Ok(out), "commit", FALSE)
       \/ /\ UNCHANGED file
          /\ Return(cur.id, Err("rusqlite"), "rollback", TRUE)
    /\ UNCHANGED <<queue, pc, wait, now, nextId, acked>>
    /\ UNCHANGED bootVars

(* handle_query: tx.rollback() and the response. *)
QueryRollback ==
    /\ wpc = "finish"
    /\ cur.op = "query"
    /\ \/ Return(cur.id, Ok(out), "rollback", FALSE)
       \/ Return(cur.id, Err("rusqlite"), "rollback", TRUE)
    /\ UNCHANGED <<file, queue, pc, wait, now, nextId, acked>>
    /\ UNCHANGED bootVars

(* A faulty variant: the queued requests are forgotten, their callers hear nothing. *)
DroppedSilently(rs, q) == rs

(* The responders of the requests still queued are dropped with the       *)
(* queue: each caller that awaits one of them gets a GhostError.           *)
Dropped(rs, q) ==
    [i \in Ids |->
        IF /\ \E k \in 1..Len(q) : q[k].id = i
           /\ \E c \in Callers : pc[c] = "waiting" /\ wait[c] = i
        THEN Err("ghost")
        ELSE rs[i]]

(* The actor shuts down between two handlers: the task ends, Db and its    *)
(* connection are dropped.                                                 *)
Shutdown ==
    /\ spawnPc = "running"
    /\ wpc = "idle"
    /\ spawnPc' = "stopped"
    /\ sender' = FALSE
    /\ con' = [open |-> FALSE, keyed |-> FALSE]
    /\ resp' = Dropped(resp, queue)
    /\ hist' = [i \in Ids |->
                   IF \E k \in 1..Len(queue) : queue[k].id = i
                   THEN [hist[i] EXCEPT !.state = "dropped", !.sent = @ + 1]
                   ELSE hist[i]]
    /\ queue' = <<>>
    /\ UNCHANGED <<file, epoch, wpc, cur, txOpen, view, out, pc, wait, now, nextId, acked>>
    /\ UNCHANGED <<spawnErr, bootFault, key, keyText>>

(***************************************************************************)
(* The callers: tasks that hold the sender.                                *)
(***************************************************************************)
workerVars == <<wpc, cur, txOpen, view, out>>

Accept(c, op, arg) ==
    /\ sender
    /\ pc[c] = "idle"
    /\ nextId <= MaxReq
    /\ queue' = Append(queue, [id |-> nextId, op |-> op, arg |-> arg])
    /\ hist' = [hist EXCEPT ![nextId] =
                   [NoHist EXCEPT !.actor = epoch, !.state = "queued",
                                  !.seen = IF op = "query" THEN acked ELSE {},
                                  !.req = [id |-> nextId, op |-> op,
                                           arg |-> IF op = "insert" THEN arg ELSE <<>>]]]
    /\ pc' = [pc EXCEPT ![c] = "waiting"]
    /\ wait' = [wait EXCEPT ![c] = nextId]
    /\ nextId' = nextId + 1
    /\ UNCHANGED <<file, resp, now, acked>>
    /\ UNCHANGED bootVars
    /\ UNCHANGED workerVars

(* con.insert(Entry::rand()) *)
CallInsert(c, h, l) == Accept(c, "insert", Entry(h, l, ClockTimes[now]))

(* con.query(dht_loc_start, dht_loc_end, created_at_start, created_at_end) *)
CallQuery(c, q) == Accept(c, "query", q)

(* The await of the call completes with the outcome. *)
Receive(c) ==
    /\ pc[c] = "waiting"
    /\ resp[wait[c]] # None
    /\ acked' = IF resp[wait[c]].ok /\ hist[wait[c]].req.op = "insert"
                THEN acked \cup {hist[wait[c]].req.arg} ELSE acked
    /\ resp' = [resp EXCEPT ![wait[c]] = None]
    /\ pc' = [pc EXCEPT ![c] = "idle"]
    /\ wait' = [wait EXCEPT ![c] = 0]
    /\ UNCHANGED <<file, queue, now, nextId, hist>>
    /\ UNCHANGED bootVars
    /\ UNCHANGED workerVars

(* A faulty variant: giving up the call cancels the handler that runs it. *)
AbandonCancels(c) ==
    /\ pc[c] = "waiting"
    /\ resp' = [resp EXCEPT ![wait[c]] = None]
    /\ pc' = [pc EXCEPT ![c] = "idle"]
    /\ wait' = [wait EXCEPT ![c] = 0]
    /\ IF cur.id = wait[c]
       THEN wpc' = "idle" /\ cur' = NoReq /\ view' = {} /\ out' = <<>> /\ UNCHANGED txOpen
       ELSE UNCHANGED workerVars
    /\ UNCHANGED <<file, queue, now, nextId, hist, acked>>
    /\ UNCHANGED bootVars

(* The caller drops the future of the call without its outcome. *)
Abandon(c) ==
    /\ pc[c] = "waiting"
    /\ resp' = [resp EXCEPT ![wait[c]] = None]
    /\ pc' = [pc EXCEPT ![c] = "idle"]
    /\ wait' = [wait EXCEPT ![c] = 0]
    /\ UNCHANGED <<file, queue, now, nextId, hist, acked>>
    /\ UNCHANGED bootVars
    /\ UNCHANGED workerVars

(* Time passes: the next Utc::now() reads later. *)
Tick ==
    /\ now < Len(ClockTimes)
    /\ now' = now + 1
    /\ UNCHANGED <<file, queue, resp, pc, wait, nextId, hist, acked>>
    /\ UNCHANGED bootVars
    /\ UNCHANGED workerVars

(***************************************************************************)
(* One run of spawn_database with two callers, all within one reading of   *)
(* the clock.                                                              *)
(***************************************************************************)
Boot ==
    \/ CreateChannel
    \/ ConnectionOpen
    \/ PragmaKey
    \/ PragmaJournalMode
    \/ CreateTable
    \/ CreateIndex

Worker ==
    \/ HandleBegin
    \/ InsertExecute
    \/ InsertCommit
    \/ QuerySelect
    \/ QueryRollback

Next ==
    \/ Boot
    \/ Worker
    \/ Shutdown
    \/ \E c \in Callers, h \in Hashes, l \in Locs : CallInsert(c, h, l)
    \/ \E c \in Callers, q \in QueryRanges(ClockTimes[now]) : CallQuery(c, q)
    \/ \E c \in Callers : Receive(c)
    \/ \E c \in Callers : Abandon(c)

Spec == Init /\ [][Next]_vars

(***************************************************************************)
(* The store over time: one caller that awaits every call, the clock       *)
(* advancing, and spawn_database run again on the same path.               *)
(***************************************************************************)
NextStore ==
    \/ Boot
    \/ Worker
    \/ Shutdown
    \/ Respawn
    \/ Tick
    \/ \E h \in Hashes, l \in Locs : CallInsert("a", h, l)
    \/ \E q \in QueryRanges(ClockTimes[now]) : CallQuery("a", q)
    \/ Receive("a")

SpecStore == Init /\ [][NextStore]_vars

(***************************************************************************)
(* The actor and its callers under the scheduling of the runtime, which    *)
(* polls every task: the worker handles what is queued and a caller that   *)
(* awaits takes the outcome sent to it.  The callers await every call;     *)
(* they insert one hash at dht_loc 0 and run the query of main.            *)
(***************************************************************************)
NextLive ==
    \/ Boot
    \/ Worker
    \/ Shutdown
    \/ \E c \in Callers : CallInsert(c, <<0, 0, 0, 1>>, U32Min)
    \/ \E c \in Callers :
           CallQuery(c, Range(U32Min, U32Max, QueryStart, ClockTimes[now]))
    \/ \E c \in Callers : Receive(c)

FairSpec ==
    /\ Init
    /\ [][NextLive]_vars
    /\ WF_vars(Worker)
    /\ \A c \in Callers : WF_vars(Receive(c))

(***************************************************************************)
(* Callers that give up: two callers insert, and each may drop the future  *)
(* of its call at any time; the runtime keeps polling the actor task,      *)
(* which runs handle_insert for every request it takes.                    *)
(***************************************************************************)
InsertWorker ==
    \/ HandleBegin
    \/ InsertExecute
    \/ InsertCommit

NextGiveUp ==
    \/ Boot
    \/ InsertWorker
    \/ \E c \in Callers, h \in Hashes : CallInsert(c, h, U32Min)
    \/ \E c \in Callers : Receive(c)
    \/ \E c \in Callers : Abandon(c)

FairGiveUp == Init /\ [][NextGiveUp]_vars /\ WF_vars(InsertWorker)

(***************************************************************************)
(* The bootstrap alone, run and run again, with any of the secrets as the  *)
(* key that Key::to_sql renders.                                           *)
(***************************************************************************)
InitKey == key \in Secrets /\ Start

NextKey ==
    \/ Boot
    \/ Respawn

SpecKey == InitKey /\ [][NextKey]_vars

(***************************************************************************)
(* Properties.                                                             *)
(***************************************************************************)
(* e lies in the range q: both bounds of dht_loc and both bounds of        *)
(* created_at inclusive, created_at compared as a time.                    *)
InRange(e, q) ==
    /\ U32Le(q.dht_loc_start, e.dht_loc)
    /\ U32Le(e.dht_loc, q.dht_loc_end)
    /\ DtLe(q.created_at_start, e.created_at)
    /\ DtLe(e.created_at, q.created_at_end)

Elements(s) == {s[i] : i \in DOMAIN s}

(* the entries whose insert was committed *)
Inserted ==
    {hist[i].req.arg : i \in {j \in Ids : hist[j].req.op = "insert" /\ hist[j].txEnd = "commit"}}

HoldsHash(rows, h) == \E r \in rows : r.hash = h

(* handle_query has filled `out` and is about to return it *)
QueryReturns == wpc = "finish" /\ cur.op = "query"

(* C1: a query accepted after its caller received the successful response *)
(* of insert(e), and whose bounds include e.dht_loc and e.created_at,     *)
(* returns a sequence that contains e.                                    *)
C1_QueryObservesAckedInsert ==
    QueryReturns =>
        \A e \in hist[cur.id].seen : InRange(e, cur.arg) => e \in Elements(out)

(* C2: at most one operation has a transaction open on the connection.    *)
C2_OneTransaction == Cardinality(txOpen) <= 1

C2_Witness == txOpen # {} /\ Len(queue) = 2

RECURSIVE SeqRows(_)
(* The rows after the requests 1..k, applied one after the other in the   *)
(* order of acceptance: an insert adds its row unless the engine failed   *)
(* or a row has its hash.                                                  *)
SeqRows(k) ==
    IF k = 0 THEN {}
    ELSE LET h == hist[k]
             prev == SeqRows(k - 1)
         IN  IF /\ h.state = "done"
                /\ h.req.op = "insert"
                /\ ~h.fault
                /\ ~HoldsHash(prev, h.req.arg.hash)
             THEN prev \cup {Row(h.req.arg)}
             ELSE prev

(* C3: requests are processed one at a time in the order of acceptance:   *)
(* when a request's transaction has started, every request the same actor *)
(* accepted before it has finished; and the store holds what the requests *)
(* applied one after the other in that order leave.                       *)
C3_Fifo ==
    /\ \A i \in Ids, j \in Ids :
           (/\ i < j
            /\ hist[i].actor = hist[j].actor
            /\ hist[j].state \in {"begun", "done"}) => hist[i].state = "done"
    /\ file.rows = SeqRows(MaxReq)

C3_Witness ==
    /\ hist[1].state = "done" /\ hist[2].state = "done" /\ hist[3].state = "begun"
    /\ hist[1].req.op = "insert" /\ hist[2].req.op = "insert"
    /\ hist[1].req.arg.hash = hist[2].req.arg.hash
    /\ hist[1].req.arg # hist[2].req.arg
    /\ file.rows = {Row(hist[1].req.arg)}

(* C4: a query returns exactly the stored entries that lie in its range.  *)
C4_QueryReturnsRange ==
    QueryReturns => Elements(out) = {e \in Inserted : InRange(e, cur.arg)}

Awaited(id) == \E c \in Callers : pc[c] = "waiting" /\ wait[c] = id

(* C5: an insert whose hash the store already holds is reported to its    *)
(* caller as a failure and leaves the store as it was: the step that ends  *)
(* its INSERT changes nothing in the file, rolls the transaction back and  *)
(* sends the error.                                                        *)
C5_DuplicateInsertFails ==
    [][(/\ wpc = "exec"
        /\ cur.op = "insert"
        /\ HoldsHash(file.rows, cur.arg.hash)
        /\ wpc' # "exec")
       => (/\ file' = file
           /\ wpc' = "idle"
           /\ hist'[cur.id].txEnd = "rollback"
           /\ Awaited(cur.id) => resp'[cur.id] = Err("rusqlite"))]_vars

(* a second insert of a hash, with another dht_loc and created_at, has     *)
(* failed on the constraint and the first row is still the only one        *)
C5_Witness ==
    \E i \in Ids :
        /\ hist[i].state = "done"
        /\ hist[i].req.op = "insert"
        /\ hist[i].txEnd = "rollback"
        /\ ~hist[i].fault
        /\ resp[i] = Err("rusqlite")
        /\ \E r \in file.rows :
               /\ r.hash = hist[i].req.arg.hash
               /\ r.dht_loc # hist[i].req.arg.dht_loc
               /\ r.created_at # to_sql(hist[i].req.arg.created_at)
        /\ Cardinality(file.rows) = 1

(* C6: no two stored entries have the same hash.                          *)
C6_HashUnique ==
    \A r1 \in file.rows, r2 \in file.rows : r1.hash = r2.hash => r1 = r2

(* two rows are stored, an insert has failed, and the path was re-opened   *)
C6_Witness ==
    /\ Cardinality(file.rows) = 2
    /\ epoch = 2
    /\ spawnPc = "running"
    /\ \E i \in Ids : hist[i].req.op = "insert" /\ hist[i].txEnd = "rollback"

(* C7: when a step of the bootstrap fails, spawn_database returns the      *)
(* error: no sender is returned, the run accepts no request and no worker  *)
(* runs a handler; a request is only ever handled on a store whose         *)
(* bootstrap went through.                                                 *)
C7_FailedBootServesNothing ==
    /\ spawnPc = "failed" =>
           /\ ~sender
           /\ ~con.open
           /\ \A i \in Ids : hist[i].actor # epoch
    /\ spawnPc # "running" => wpc = "idle" /\ txOpen = {}
    /\ wpc # "idle" =>
           /\ con.open /\ con.keyed
           /\ file.schema = {"entries", "entries_query_idx"}

(* the index could not be created on a file that has the table *)
C7_Witness ==
    /\ spawnPc = "failed"
    /\ file.exists
    /\ file.schema = {"entries"}

Delivered(i) == hist[i].sent = 1 /\ ~Awaited(i)

(* C8: every accepted request gets exactly one outcome, also when the     *)
(* actor shuts down with requests queued: its handler's result or the     *)
(* error of the shutdown; the caller that awaits it receives it.          *)
C8_EveryRequestAnswered ==
    /\ \A i \in Ids : (hist[i].state # "none") ~> Delivered(i)
    /\ [](\A i \in Ids : hist[i].sent <= 1)
    /\ [](\A i \in Ids : (hist[i].state \in {"none", "queued", "begun"}) => hist[i].sent = 0)

(* a request that was still queued at the shutdown has been answered *)
C8_Witness ==
    \E i \in Ids :
        /\ hist[i].state = "dropped"
        /\ hist[i].sent = 1
        /\ resp[i] = Err("ghost")
        /\ Awaited(i)

(* C9: a query never changes the store: no step taken while handle_query  *)
(* runs changes the file, and the transaction of a query ends rolled      *)
(* back, never committed.                                                  *)
C9_QueryChangesNothing ==
    /\ [][cur.op = "query" => file' = file]_vars
    /\ [](\A i \in Ids :
              (hist[i].req.op = "query" /\ hist[i].state = "done")
                  => hist[i].txEnd \in {"rollback", "none"})
    /\ [](cur.op = "query" => view = file.rows)

C9_Witness ==
    \E i \in Ids :
        /\ hist[i].req.op = "query"
        /\ hist[i].state = "done"
        /\ hist[i].txEnd = "rollback"
        /\ resp[i].ok
        /\ Len(resp[i].val) = 2
        /\ Cardinality(file.rows) = 2

Count(s, e) == Cardinality({i \in DOMAIN s : s[i] = e})

(* the query of main: 0 .. u32::MAX, from a time before every stored       *)
(* entry to the reading of the clock                                       *)
FullQuery(q) ==
    /\ q.dht_loc_start = U32Min
    /\ q.dht_loc_end = U32Max
    /\ q.created_at_end \in Elements(ClockTimes)
    /\ \A e \in Inserted :
           DtLe(q.created_at_start, e.created_at) /\ q.created_at_start # e.created_at

(* C10: the query 0 .. u32::MAX from before every inserted entry to now   *)
(* returns every entry inserted before it exactly once.                   *)
C10_FullQueryReturnsAll ==
    (QueryReturns /\ FullQuery(cur.arg)) =>
        /\ \A e \in Inserted : Count(out, e) = 1
        /\ Elements(out) = Inserted

(* two entries, at dht_loc 0 and at u32::MAX, inserted at different times  *)
C10_Witness ==
    /\ QueryReturns
    /\ FullQuery(cur.arg)
    /\ Len(out) = 2
    /\ {out[1].dht_loc, out[2].dht_loc} = {U32Min, U32Max}
    /\ out[1].created_at # out[2].created_at

(* C11: a query whose range holds none of the stored entries returns the  *)
(* empty sequence, and it is answered with success, not with an error.    *)
C11_EmptyRangeEmptyResult ==
    (QueryReturns /\ \A e \in Inserted : ~InRange(e, cur.arg)) => out = <<>>

(* C12: the bootstrap is idempotent: a run fails only when the channel or *)
(* the engine fails, never because the store is already set up; a store   *)
(* that was opened has the table entries and the index entries_query_idx, *)
(* and a later run leaves that schema as it is.                           *)
C12_BootstrapIdempotent ==
    /\ [](spawnPc = "failed" => bootFault)
    /\ [](spawnPc = "running" => file.schema = {"entries", "entries_query_idx"})
    /\ [][file.schema = {"entries", "entries_query_idx"} => file'.schema = file.schema]_vars

(* the second open of a path whose first open served a request *)
C12_Witness ==
    /\ epoch = 2
    /\ spawnPc = "running"
    /\ \E i \in Ids : hist[i].actor = 1 /\ hist[i].state = "done"

(* C13: in every run of the bootstrap the key is applied before the       *)
(* journal mode, the table or the index statement is issued, and a        *)
(* handler only runs on a connection the key was applied to.              *)
C13_KeyBeforeSchema ==
    /\ [][(spawnPc \in {"journal", "table", "index"} /\ spawnPc' # spawnPc)
             => con.keyed]_vars
    /\ [](wpc # "idle" => con.keyed /\ keyText = KeyToSql(key))

C13_Witness ==
    /\ epoch = 2
    /\ QueryReturns
    /\ con.keyed
    /\ file.rows # {}

(* "0123456789ABCDEF" *)
HexDigits == <<48, 49, 50, 51, 52, 53, 54, 55, 56, 57, 65, 66, 67, 68, 69, 70>>

(* C17: the text of a 32-byte key has 64 characters, the two of byte i at *)
(* the positions 2i and 2i+1 (counted from 0), high nibble first, each     *)
(* one of 0-9 and A-F; rendering the key again gives the same text.        *)
C17_KeyHex ==
    /\ [](keyText # <<>> =>
             /\ Len(keyText) = 64
             /\ \A i \in 0..31 :
                    /\ keyText[2 * i + 1] = HexDigits[(key[i + 1] \div 16) + 1]
                    /\ keyText[2 * i + 2] = HexDigits[(key[i + 1] % 16) + 1])
    /\ [][keyText # <<>> => keyText' = keyText]_vars

(* a key with small bytes and with bytes whose nibbles are letters has     *)
(* been rendered a second time                                             *)
C17_Witness ==
    /\ epoch = 2
    /\ spawnPc = "journal"
    /\ keyText # <<>>
    /\ \E i \in 1..32 : key[i] < 16 /\ key[i] > 0
    /\ \E i \in 1..32 : key[i] \div 16 >= 10 /\ key[i] % 16 >= 10

(* the rows of the committed inserts *)
Committed == {Row(e) : e \in Inserted}

(* C14: a caller that gives up a request the worker has dispatched does   *)
(* not touch the worker: the handler goes on and returns, an insert given *)
(* up is committed as a whole or not at all with no transaction left      *)
(* open, and the requests accepted later are handled too.                 *)
C14_AbandonedStillCompletes ==
    /\ [][\A c \in Callers :
              (/\ pc[c] = "waiting"
               /\ pc'[c] = "idle"
               /\ resp[wait[c]] = None
               /\ hist[wait[c]].state = "begun")
                  => UNCHANGED <<file, queue, wpc, cur, txOpen, view, out, hist>>]_vars
    /\ [](\A i \in Ids :
              /\ hist[i].state = "begun" => (cur.id = i /\ wpc # "idle" /\ txOpen = {i})
              /\ hist[i].state = "done" => i \notin txOpen)
    /\ [](file.rows = Committed)
    /\ \A i \in Ids : (hist[i].state \in {"queued", "begun"}) ~> (hist[i].state = "done")

(* an insert nobody waited for was committed, and the insert accepted      *)
(* after it was committed and received                                     *)
C14_Witness ==
    /\ hist[1].state = "done" /\ hist[1].txEnd = "commit"
    /\ hist[1].req.arg \notin acked
    /\ ~Awaited(1)
    /\ hist[2].state = "done" /\ hist[2].txEnd = "commit"
    /\ hist[2].req.arg \in acked

(* the error an awaited request was answered with *)
Failure(i) == resp[i] # None /\ ~resp[i].ok

(* C15: failures of different kinds of the taxonomy come as error values  *)
(* of different kinds: the error of a failed open differs from the error  *)
(* of a failed transaction, and both differ from the error of a request   *)
(* that was dropped with the actor.                                       *)
C15_ErrorKindsDistinct ==
    \A i \in Ids, j \in Ids :
        /\ (spawnErr = "rusqlite" /\ Failure(i)) => resp[i].err # spawnErr
        /\ (/\ Failure(i) /\ hist[i].state = "done"
            /\ Failure(j) /\ hist[j].state = "dropped") => resp[i].err # resp[j].err

(* C16: if r1 was accepted before r2 by the same actor, r1's response is  *)
(* received by its caller before r2's response is received by its caller: *)
(* when a caller takes the outcome of a request the worker has handled,   *)
(* no caller still waits for a request accepted earlier.                  *)
C16_ResponsesInOrder ==
    [][\A c \in Callers :
           (pc[c] = "waiting" /\ pc'[c] = "idle" /\ hist[wait[c]].state = "done")
               => \A i \in Ids :
                      (i < wait[c] /\ hist[i].actor = hist[wait[c]].actor)
                          => ~Awaited(i)]_vars

(* dht_loc_start > dht_loc_end *)
Wrapped(q) == ~U32Le(q.dht_loc_start, q.dht_loc_end)

(* C18: a query whose dht_loc_start lies above its dht_loc_end returns    *)
(* the empty sequence whatever the store holds, and unless the engine     *)
(* fails it is answered with success.                                     *)
C18_WrappedRangeIsEmpty ==
    /\ []((QueryReturns /\ Wrapped(cur.arg)) => out = <<>>)
    /\ [][(QueryReturns /\ Wrapped(cur.arg) /\ wpc' = "idle" /\ ~hist'[cur.id].fault)
             => resp'[cur.id] = Ok(<<>>)]_vars

(* the store holds an entry at 0 and one at u32::MAX, both in the range    *)
(* of times and in the wrapped range u32::MAX .. 0                         *)
C18_Witness ==
    /\ QueryReturns
    /\ Wrapped(cur.arg)
    /\ {r.dht_loc : r \in view} = {U32Min, U32Max}
    /\ \A e \in Inserted :
           /\ DtLe(cur.arg.created_at_start, e.created_at)
           /\ DtLe(e.created_at, cur.arg.created_at_end)

(* the request was reported as failed *)
Failed(h) == h.state = "done" /\ (h.fault \/ (h.req.op = "insert" /\ h.txEnd # "commit"))

(* C19: the step that reports a request as failed leaves the actor        *)
(* running on its open connection, no transaction open and the store as   *)
(* it was; the store always holds the rows of the committed inserts, the  *)
(* failed requests having added nothing.                                  *)
C19_FailureDoesNotStop ==
    /\ [][\A i \in Ids :
              (~Failed(hist[i]) /\ Failed(hist'[i]))
                  => /\ spawnPc' = "running" /\ sender'
                     /\ con' = con /\ con.open
                     /\ wpc' = "idle" /\ txOpen' = {}
                     /\ file' = file
                     /\ queue' = IF cur.id = i THEN queue ELSE Tail(queue)]_vars
    /\ [](wpc = "idle" => txOpen = {})
    /\ [](Cardinality(file.rows) = Cardinality(Inserted))

(* a duplicate insert failed, and the insert accepted after it by the same *)
(* actor was committed and answered                                        *)
C19_Witness ==
    \E i \in Ids, j \in Ids :
        /\ i < j
        /\ hist[i].actor = hist[j].actor
        /\ Failed(hist[i]) /\ ~hist[i].fault
        /\ hist[j].req.op = "insert" /\ hist[j].txEnd = "commit"
        /\ resp[j] = Ok(<<>>)

(* C20: once insert(e) has succeeded the store holds exactly one row with *)
(* e.hash, and it reads back as e, in every later state.                  *)
C20_EntriesKept ==
    \A e \in Inserted : {RowEntry(r) : r \in {x \in file.rows : x.hash = e.hash}} = {e}

(* two entries stored by the first actor are still there after the path   *)
(* was opened again and an insert of one of their hashes, with another    *)
(* dht_loc, was refused                                                    *)
C20_Witness ==
    /\ epoch = 2
    /\ Cardinality(Inserted) = 2
    /\ \A i \in Ids : hist[i].txEnd = "commit" => hist[i].actor = 1
    /\ \E i \in Ids :
           /\ hist[i].actor = 2
           /\ Failed(hist[i]) /\ ~hist[i].fault
           /\ \E e \in Inserted :
                  e.hash = hist[i].req.arg.hash /\ e.dht_loc # hist[i].req.arg.dht_loc

====
